---- MODULE Spec2Model ----
(***************************************************************************)
(* Model of src/worker.py: the news worker that fetches articles for a     *)
(* fixed list of queries, enriches them with their full text, normalizes   *)
(* them to ArticleFeed records and publishes them to a fanout exchange,    *)
(* once at start-up and then on a recurring timer.                         *)
(*                                                                         *)
(* JSON values are represented as follows.  A dict entry is a string; the  *)
(* two reserved strings Absent and None stand for "key not in the dict"    *)
(* and "key present with value null".  The `source` entry is a record      *)
(* [kind, val]: kind says whether it is absent, null, a string or an       *)
(* object, and val is the string, or the object's `name` entry.            *)
(***************************************************************************)
EXTENDS Integers, Sequences, FiniteSets, TLC

VARIABLES
    pc,               \* position of the single control flow
    timerRegistered,  \* schedule.every(...).do(run_cycle) has been executed
    due,              \* the registered job's next_run time has been reached
    cyclesDone,       \* TRUE once a run_cycle call has returned
    qi,               \* run_cycle: index of the current query in FETCH_QUERIES
    attempted,        \* queries for which process_query was called this cycle
    status,           \* per query, how process_query ended this cycle
    exc,              \* where the exception being propagated was raised
    payload,          \* fetch_articles: response.json()
    articles,         \* process_query: the list returned by fetch_articles
    ei,               \* enrich_articles: index of the next item of the loop
    results,          \* enrich_articles: what happened to each item so far
    enriched,         \* enrich_articles: the list built so far / returned
    connection,       \* publish_articles: state of the local `connection`
    leaked,           \* connections left open by publish_articles calls that ended
    declared,         \* publish_articles: exchange_declare has returned
    pi,               \* publish_articles: index of the next article of the loop
    sent,             \* messages basic_publish delivered for the current query
    rec,              \* normalizer alone: the input record
    recAfter,         \* normalizer alone: the input record after the calls
    feeds             \* normalizer alone: the outputs of the calls so far

vars == <<pc, timerRegistered, due, cyclesDone, qi, attempted, status, exc,
          payload, articles, ei, results, enriched, connection, leaked,
          declared, pi, sent, rec, recAfter, feeds>>

-----------------------------------------------------------------------------
(* Bounds *)

\* longest article list in a search response
MaxArticles == 2

\* connections left open are counted up to this number (a count of
\* MaxLeaked stands for "MaxLeaked or more")
MaxLeaked == 1

\* longest input list of enrich_articles when it runs on its own
MaxBatch == 2

\* number of times the normalizer is applied to one input record
MaxCalls == 2

-----------------------------------------------------------------------------
(* Values *)

Absent == "<absent>"
None == "<null>"

FETCH_QUERIES == <<"political", "health", "technology", "sports", "education">>

NumQueries == Len(FETCH_QUERIES)

Min(a, b) == IF a < b THEN a ELSE b

\* dict.get(key) / dict.get(key, default) on an entry
Get(entry, default) == IF entry = Absent THEN default ELSE entry

\* Python truthiness of an entry (a string or null)
Truthy(entry) == entry \notin {Absent, None, ""}

NoSource == [kind |-> "absent", val |-> Absent]

Source(kind, val) == [kind |-> kind, val |-> val]

\* the record of the end-to-end scenario
ScenarioArticle ==
    [id |-> "1", title |-> "T", url |-> "http://x",
     publishedAt |-> "2024-01-01T00:00:00Z", full_content |-> Absent,
     source |-> Source("obj", "S")]

\* sample records of a search response: the scenario's, and one without
\* the url key
SampleArticles ==
    { ScenarioArticle,
      [id |-> "2", title |-> "U", url |-> Absent, publishedAt |-> Absent,
       full_content |-> Absent, source |-> NoSource] }

\* input records of enrich_articles when it runs on its own: the
\* samples, and records with a null id, a null url, an empty url, and a
\* stale full_content
EnrichSamples ==
    SampleArticles \cup
    { [id |-> None, title |-> "W", url |-> "http://y", publishedAt |-> None,
       full_content |-> Absent, source |-> Source("str", "wire")],
      [id |-> "3", title |-> "V", url |-> "", publishedAt |-> "2024-01-02",
       full_content |-> Absent, source |-> NoSource],
      [id |-> "4", title |-> Absent, url |-> None, publishedAt |-> Absent,
       full_content |-> "stale", source |-> Source("obj", None)],
      [id |-> "5", title |-> "", url |-> "http://z", publishedAt |-> "",
       full_content |-> "stale", source |-> Source("obj", "S")] }

SeqsUpTo(S, n) == UNION { [1..k -> S] : k \in 0..n }

ArticleLists == SeqsUpTo(SampleArticles, MaxArticles)

\* a value found under a key of the response body
Value(kind, items) == [kind |-> kind, items |-> items]

\* non-list values: key absent, null, a non-empty string, an empty object
NonLists == { Value(k, <<>>) : k \in {"absent", "null", "str", "emptyobj"} }

ArticlesValues == NonLists \cup { Value("list", l) : l \in ArticleLists }

DataValues == NonLists \cup { Value("list", <<>>), Value("list", <<ScenarioArticle>>) }

Payloads == [articles : ArticlesValues, data : DataValues]

NoPayload == [articles |-> Value("absent", <<>>), data |-> Value("absent", <<>>)]

\* what enrich_article(url) can do: raise, or return the extracted text
EnrichOutcomes == {"failed", "Full text", ""}

\* every shape of input record of the normalizer
FieldShapes(v) == {Absent, None, v}

SourceShapes ==
    { NoSource, Source("null", Absent), Source("str", "wire"),
      Source("obj", Absent), Source("obj", None), Source("obj", "X") }

RecordShapes ==
    [id : FieldShapes("1"), title : FieldShapes("T"), url : FieldShapes("http://x"),
     publishedAt : FieldShapes("2024-01-01T00:00:00Z"),
     full_content : FieldShapes("Full text"), source : SourceShapes]

-----------------------------------------------------------------------------
(* fetch_articles *)

\* truthiness of a value found under a key of the response body
ValueTruthy(v) ==
    \/ v.kind = "str"
    \/ v.kind = "list" /\ v.items # <<>>

\* payload.get("articles") or payload.get("data") or []
SelectArticles(p) ==
    IF ValueTruthy(p.articles) THEN p.articles
    ELSE IF ValueTruthy(p.data) THEN p.data
    ELSE Value("list", <<>>)

\* isinstance(articles, list)
IsList(v) == v.kind = "list"

-----------------------------------------------------------------------------
(* enrich_articles *)

\* `if not url` is false
HasUrl(item) == Truthy(item.url)

\* EnrichItem without the `if not url: continue` test
EnrichItemNoSkip(list, item, outcome) ==
    Append(list, [item EXCEPT !.full_content =
                      IF outcome = "failed" THEN None ELSE outcome])

\* EnrichItem with a record whose enrichment failed dropped
EnrichItemDropsFailed(list, item, outcome) ==
    IF ~HasUrl(item) \/ outcome = "failed" THEN list
    ELSE Append(list, [item EXCEPT !.full_content = outcome])

\* one iteration of the loop on `item`, enrich_article(url) ending in
\* `outcome`: the new value of `enriched`
EnrichItem(list, item, outcome) ==
    IF ~HasUrl(item) THEN list
    ELSE Append(list, [item EXCEPT !.full_content =
                           IF outcome = "failed" THEN None ELSE outcome])

\* what the iteration records about `item`
ItemResult(item, outcome) == IF ~HasUrl(item) THEN "skipped" ELSE outcome

-----------------------------------------------------------------------------
(* convert_to_article_feed and asdict *)

\* SourceName with a plain-string source passed through
SourceNameKeepsString(source) ==
    IF source.kind = "obj" THEN Get(source.val, "")
    ELSE IF source.kind = "str" THEN source.val
    ELSE ""

SourceName(source) ==
    IF source.kind = "obj" THEN Get(source.val, "") ELSE ""

\* article.get("full_content", "") or ""
ArticleBody(article) ==
    IF Truthy(Get(article.full_content, "")) THEN article.full_content ELSE ""

convert_to_article_feed(article) ==
    [article_id |-> Get(article.id, ""),
     title |-> Get(article.title, ""),
     article_body |-> ArticleBody(article),
     source |-> SourceName(article.source),
     url |-> Get(article.url, ""),
     publisher |-> "",
     publication_date |-> Get(article.publishedAt, ""),
     recipients |-> <<>>]

\* Message with publisher filled in from the source name
MessageWithPublisher(article) ==
    [convert_to_article_feed(article) EXCEPT !.publisher = SourceName(article.source)]

\* the message published for one article: asdict(article_feed)
Message(article) == convert_to_article_feed(article)

-----------------------------------------------------------------------------
(* State machine *)

NoStatus == [q \in 1..NumQueries |-> "pending"]

\* the worker before main runs
WorkerInit ==
    /\ pc = "main"
    /\ timerRegistered = FALSE
    /\ due = FALSE
    /\ cyclesDone = FALSE
    /\ qi = 0
    /\ attempted = <<>>
    /\ status = NoStatus
    /\ exc = "none"
    /\ payload = NoPayload
    /\ articles = <<>>
    /\ ei = 0
    /\ results = <<>>
    /\ enriched = <<>>
    /\ connection = "none"
    /\ leaked = 0
    /\ declared = FALSE
    /\ pi = 0
    /\ sent = <<>>

Init ==
    /\ WorkerInit
    /\ rec = ScenarioArticle
    /\ recAfter = ScenarioArticle
    /\ feeds = <<>>

schedVars == <<timerRegistered, due, cyclesDone>>
cycleVars == <<qi, attempted, status>>
fetchVars == <<payload, articles>>
enrichVars == <<ei, results, enriched>>
publishVars == <<connection, leaked, declared, pi, sent>>
normVars == <<rec, recAfter, feeds>>

\* run_cycle is entered: the loop over FETCH_QUERIES starts
EnterCycle ==
    /\ qi' = 1
    /\ attempted' = <<>>
    /\ status' = NoStatus
    /\ pc' = "query"

\* main: the first run_cycle() call
StartFirstCycle ==
    /\ pc = "main"
    /\ EnterCycle
    /\ UNCHANGED <<schedVars, exc, fetchVars, enrichVars, publishVars, normVars>>

\* run_cycle: the loop calls process_query(query); the locals of the
\* previous call are gone
ProcessQuery ==
    /\ pc = "query"
    /\ qi <= NumQueries
    /\ attempted' = Append(attempted, FETCH_QUERIES[qi])
    /\ payload' = NoPayload
    /\ articles' = <<>>
    /\ ei' = 0
    /\ results' = <<>>
    /\ enriched' = <<>>
    /\ connection' = "none"
    /\ declared' = FALSE
    /\ pi' = 0
    /\ sent' = <<>>
    /\ pc' = "http"
    /\ UNCHANGED <<schedVars, qi, status, exc, leaked, normVars>>

\* an exception leaves process_query from the step at `where`; a connection
\* that publish_articles has opened stays open
Raise(where) ==
    /\ exc' = where
    /\ pc' = "except"
    /\ leaked' = IF connection = "open" THEN Min(leaked + 1, MaxLeaked) ELSE leaked

\* fetch_articles: requests.get, raise_for_status and response.json either
\* raise or give the response body
HttpGet ==
    /\ pc = "http"
    /\ \/ /\ Raise("fetch")
          /\ UNCHANGED payload
       \/ /\ payload' \in Payloads
          /\ pc' = "parse"
          /\ UNCHANGED <<exc, leaked>>
    /\ UNCHANGED <<schedVars, cycleVars, articles, enrichVars, connection, declared, pi, sent, normVars>>

\* fetch_articles: the list is selected and its type checked; on return
\* process_query calls enrich_articles
ParsePayload ==
    /\ pc = "parse"
    /\ IF IsList(SelectArticles(payload))
       THEN /\ articles' = SelectArticles(payload).items
            /\ ei' = 1
            /\ pc' = "enrich"
            /\ UNCHANGED <<exc, leaked>>
       ELSE /\ Raise("payload")
            /\ UNCHANGED <<articles, ei>>
    /\ payload' = NoPayload
    /\ UNCHANGED <<schedVars, cycleVars, results, enriched, connection, declared, pi, sent, normVars>>

\* enrich_articles: one iteration of the loop
EnrichStep ==
    /\ pc = "enrich"
    /\ ei <= Len(articles)
    /\ \E outcome \in EnrichOutcomes :
          /\ enriched' = EnrichItem(enriched, articles[ei], outcome)
          /\ results' = Append(results, ItemResult(articles[ei], outcome))
    /\ ei' = ei + 1
    /\ UNCHANGED <<pc, schedVars, cycleVars, exc, fetchVars, publishVars, normVars>>

\* enrich_articles returns; process_query calls publish_articles
EnrichReturn ==
    /\ pc = "enrich"
    /\ ei > Len(articles)
    /\ pc' = "connect"
    /\ UNCHANGED <<schedVars, cycleVars, exc, fetchVars, enrichVars, publishVars, normVars>>

\* publish_articles: pika.BlockingConnection(params)
Connect ==
    /\ pc = "connect"
    /\ \/ /\ Raise("connect")
          /\ UNCHANGED connection
       \/ /\ connection' = "open"
          /\ pc' = "channel"
          /\ UNCHANGED <<exc, leaked>>
    /\ UNCHANGED <<schedVars, cycleVars, fetchVars, enrichVars, declared, pi, sent, normVars>>

\* publish_articles: connection.channel()
OpenChannel ==
    /\ pc = "channel"
    /\ \/ Raise("channel")
       \/ /\ pc' = "declare"
          /\ UNCHANGED <<exc, leaked>>
    /\ UNCHANGED <<schedVars, cycleVars, fetchVars, enrichVars, connection, declared, pi, sent, normVars>>

\* publish_articles: channel.exchange_declare(...)
DeclareExchange ==
    /\ pc = "declare"
    /\ \/ /\ Raise("declare")
          /\ UNCHANGED <<declared, pi>>
       \/ /\ declared' = TRUE
          /\ pi' = 1
          /\ pc' = "publish"
          /\ UNCHANGED <<exc, leaked>>
    /\ UNCHANGED <<schedVars, cycleVars, fetchVars, enrichVars, connection, sent, normVars>>

\* PublishStep with a basic_publish that delivers the message and then raises
PublishStepDeliversThenRaises ==
    /\ pc = "publish"
    /\ pi <= Len(enriched)
    /\ sent' = Append(sent, Message(enriched[pi]))
    /\ \/ /\ Raise("publish")
          /\ UNCHANGED pi
       \/ /\ pi' = pi + 1
          /\ UNCHANGED <<pc, exc, leaked>>
    /\ UNCHANGED <<schedVars, cycleVars, fetchVars, enrichVars, connection, declared, normVars>>

\* publish_articles: one iteration of the loop, basic_publish raising or
\* delivering the message
PublishStep ==
    /\ pc = "publish"
    /\ pi <= Len(enriched)
    /\ \/ /\ Raise("publish")
          /\ UNCHANGED <<pi, sent>>
       \/ /\ sent' = Append(sent, Message(enriched[pi]))
          /\ pi' = pi + 1
          /\ UNCHANGED <<pc, exc, leaked>>
    /\ UNCHANGED <<schedVars, cycleVars, fetchVars, enrichVars, connection, declared, normVars>>

\* the next query of the loop
NextQuery(how) ==
    /\ status' = [status EXCEPT ![qi] = how]
    /\ qi' = qi + 1
    /\ pc' = "query"

\* publish_articles: connection.close() after the loop; process_query
\* returns to the loop of run_cycle
CloseAndReturn ==
    /\ pc = "publish"
    /\ pi > Len(enriched)
    /\ connection' = "closed"
    /\ NextQuery("ok")
    /\ UNCHANGED <<schedVars, attempted, exc, fetchVars, enrichVars, leaked, declared, pi, sent, normVars>>

\* HandleError with the exception ending the loop over the queries
HandleErrorAbortsCycle ==
    /\ pc = "except"
    /\ status' = [status EXCEPT ![qi] = "failed"]
    /\ qi' = NumQueries + 1
    /\ pc' = "query"
    /\ exc' = "none"
    /\ UNCHANGED <<schedVars, attempted, fetchVars, enrichVars, publishVars, normVars>>

\* HandleError with the exception propagating out of main
HandleErrorCrashes ==
    /\ pc = "except"
    /\ pc' = "crashed"
    /\ UNCHANGED <<schedVars, cycleVars, exc, fetchVars, enrichVars, publishVars, normVars>>

\* run_cycle: `except Exception` logs the error; the loop goes on
HandleError ==
    /\ pc = "except"
    /\ NextQuery("failed")
    /\ exc' = "none"
    /\ UNCHANGED <<schedVars, attempted, fetchVars, enrichVars, publishVars, normVars>>

\* run_cycle returns: to main before the timer is registered, to the
\* scheduler's job afterwards, which schedules its next run
CycleFinished ==
    /\ pc = "query"
    /\ qi > NumQueries
    /\ cyclesDone' = TRUE
    /\ IF timerRegistered
       THEN /\ due' = FALSE
            /\ pc' = "sleep"
       ELSE /\ pc' = "register"
            /\ UNCHANGED due
    /\ UNCHANGED <<timerRegistered, cycleVars, exc, fetchVars, enrichVars, publishVars, normVars>>

\* main: schedule.every(FETCH_INTERVAL_MINUTES).minutes.do(run_cycle)
RegisterTimer ==
    /\ pc = "register"
    /\ timerRegistered' = TRUE
    /\ due' = FALSE
    /\ pc' = "poll"
    /\ UNCHANGED <<cyclesDone, cycleVars, exc, fetchVars, enrichVars, publishVars, normVars>>

\* main: schedule.run_pending() runs the job when it is due
RunPending ==
    /\ pc = "poll"
    /\ IF due
       THEN EnterCycle
       ELSE /\ pc' = "sleep"
            /\ UNCHANGED cycleVars
    /\ UNCHANGED <<schedVars, exc, fetchVars, enrichVars, publishVars, normVars>>

\* main: time.sleep(1)
Sleep ==
    /\ pc = "sleep"
    /\ pc' = "poll"
    /\ UNCHANGED <<schedVars, cycleVars, exc, fetchVars, enrichVars, publishVars, normVars>>

\* the clock reaches the job's next_run
TimerDue ==
    /\ timerRegistered
    /\ ~due
    /\ due' = TRUE
    /\ UNCHANGED <<pc, timerRegistered, cyclesDone, cycleVars, exc, fetchVars, enrichVars, publishVars, normVars>>

Worker ==
    \/ StartFirstCycle
    \/ ProcessQuery
    \/ HttpGet
    \/ ParsePayload
    \/ EnrichStep
    \/ EnrichReturn
    \/ Connect
    \/ OpenChannel
    \/ DeclareExchange
    \/ PublishStep
    \/ CloseAndReturn
    \/ HandleError
    \/ CycleFinished
    \/ RegisterTimer
    \/ RunPending
    \/ Sleep

Next == Worker \/ TimerDue

Spec == Init /\ [][Next]_vars

\* the control flow never blocks for ever and the clock advances
FairSpec == Spec /\ WF_vars(Worker) /\ WF_vars(TimerDue)

-----------------------------------------------------------------------------
(* The normalizer on every shape of input record *)

ConvertInit ==
    /\ WorkerInit
    /\ rec \in RecordShapes
    /\ recAfter = rec
    /\ feeds = <<>>

\* one call convert_to_article_feed(article) on the same record
Normalize ==
    /\ Len(feeds) < MaxCalls
    /\ feeds' = Append(feeds, convert_to_article_feed(recAfter))
    /\ UNCHANGED <<pc, schedVars, cycleVars, exc, fetchVars, enrichVars, publishVars, rec, recAfter>>

ConvertSpec == ConvertInit /\ [][Normalize]_vars

-----------------------------------------------------------------------------
(* enrich_articles on its own *)

\* enrich_articles is called on a list of records
EnrichInit ==
    /\ timerRegistered = FALSE
    /\ due = FALSE
    /\ cyclesDone = FALSE
    /\ qi = 1
    /\ attempted = <<FETCH_QUERIES[1]>>
    /\ status = NoStatus
    /\ exc = "none"
    /\ payload = NoPayload
    /\ articles \in SeqsUpTo(EnrichSamples, MaxBatch)
    /\ ei = 1
    /\ results = <<>>
    /\ enriched = <<>>
    /\ connection = "none"
    /\ leaked = 0
    /\ declared = FALSE
    /\ pi = 0
    /\ sent = <<>>
    /\ pc = "enrich"
    /\ rec = ScenarioArticle
    /\ recAfter = ScenarioArticle
    /\ feeds = <<>>

EnrichNext == EnrichStep \/ EnrichReturn

EnrichSpec == EnrichInit /\ [][EnrichNext]_vars

-----------------------------------------------------------------------------
(* Properties *)

\* positions inside a run_cycle call
InCycle ==
    pc \in {"query", "http", "parse", "enrich", "connect", "channel",
            "declare", "publish", "except"}

\* positions inside a publish_articles call after the connection is opened
InPublishCall == pc \in {"channel", "declare", "publish"}

\* positions at which the enrich_articles call of the current query has returned
Enriched == pc \in {"connect", "channel", "declare", "publish"}

\* the run_cycle call has gone through the whole list
CycleOver == pc \in {"register", "poll", "sleep"} \/ (pc = "query" /\ qi > NumQueries)

\* process_query has just returned for query number qi - 1
Returned(how) == pc = "query" /\ qi > 1 /\ status[qi - 1] = how

Prefix(s, n) == SubSeq(s, 1, n)

\* C1: in each cycle the queries are attempted once each, in the order of
\* FETCH_QUERIES, whatever the earlier ones did: the queries attempted so far
\* are the first qi (or qi - 1) of the list, every earlier query has ended
\* ok or failed, at the end of the cycle all of them have been attempted,
\* and a query that ends ok has had a message published for every record.
C1_EveryQueryAttempted ==
    /\ attempted = Prefix(FETCH_QUERIES, Len(attempted))
    /\ InCycle => Len(attempted) = (IF pc = "query" THEN qi - 1 ELSE qi)
    /\ InCycle => \A q \in 1..NumQueries :
                     IF q <= qi - 1 THEN status[q] \in {"ok", "failed"}
                     ELSE status[q] = "pending"
    /\ CycleOver => /\ attempted = FETCH_QUERIES
                    /\ \A q \in 1..NumQueries : status[q] \in {"ok", "failed"}
    /\ Returned("ok") => Len(sent) = Len(enriched)

\* C1 witness: a cycle is over in which the second query failed and the last
\* one, attempted all the same, published its messages
C1_Witness ==
    /\ pc = "query" /\ qi > NumQueries
    /\ status[2] = "failed"
    /\ status[NumQueries] = "ok"
    /\ Len(sent) = 2
    /\ attempted = FETCH_QUERIES

C3_NoConnectionLeftOpen ==
    /\ ~InPublishCall => connection # "open"
    /\ leaked = 0

\* full_content apart, the fields of a record
WithoutBody(r) == [r EXCEPT !.full_content = Absent]

\* the records with a url among the first n of a list
Kept(list, n) == SelectSeq(Prefix(list, n), HasUrl)

\* C4: the output of enrich_articles is the subsequence of the input records
\* that have a url, in input order, each once, with full_content set; no
\* record without a url is in it; output plus skipped equals input.
C4_EnrichKeepsRecordsWithUrl ==
    LET n == Len(results)
        skipped == { i \in 1..n : ~HasUrl(articles[i]) }
    IN  /\ n <= Len(articles)
        /\ Enriched => n = Len(articles)
        /\ Len(enriched) = Len(Kept(articles, n))
        /\ \A k \in 1..Len(enriched) :
              /\ k <= Len(Kept(articles, n))
              /\ WithoutBody(enriched[k]) = WithoutBody(Kept(articles, n)[k])
              /\ enriched[k].full_content # Absent
              /\ enriched[k].url \notin {Absent, None, ""}
        /\ Len(enriched) + Cardinality(skipped) = n

\* C4 witness: enrich_articles returned one record of a list of two, the
\* other one having no url
C4_Witness ==
    /\ pc = "connect"
    /\ Len(articles) = 2
    /\ articles[1].url = Absent
    /\ Len(enriched) = 1

\* position in the output of the i-th input record
Pos(i) == Cardinality({ j \in 1..i : HasUrl(articles[j]) })

\* C5: a record whose enrichment failed is in the output with a null
\* full_content, the loop goes on to the end of the list, and every other
\* record with a url is in the output with the text extracted for it.
C5_FailedEnrichmentRetained ==
    /\ pc = "enrich" => ei = Len(results) + 1
    /\ Enriched => Len(results) = Len(articles)
    /\ exc # "enrich"
    /\ \A i \in 1..Len(results) :
          /\ i <= Len(articles)
          /\ results[i] = "skipped" <=> ~HasUrl(articles[i])
          /\ results[i] # "skipped" =>
                /\ Pos(i) \in 1..Len(enriched)
                /\ enriched[Pos(i)] =
                      [articles[i] EXCEPT !.full_content =
                          IF results[i] = "failed" THEN None ELSE results[i]]

\* C5 witness: of a list of two, the first enrichment failed and the second
\* succeeded
C5_Witness ==
    /\ pc = "connect"
    /\ results = <<"failed", "Full text">>
    /\ Len(enriched) = 2
    /\ enriched[1].full_content = None

FeedFields ==
    {"article_id", "title", "article_body", "source", "url", "publisher",
     "publication_date", "recipients"}

\* the message of the end-to-end scenario
ScenarioMessage ==
    [article_id |-> "1", title |-> "T", article_body |-> "Full text",
     source |-> "S", url |-> "http://x", publisher |-> "",
     publication_date |-> "2024-01-01T00:00:00Z", recipients |-> <<>>]

\* C6: messages are published after the exchange is declared, one per
\* enriched record and in the order of the list; each has the eight fields,
\* publisher "" and no recipients, the record's url and title, and the
\* extracted text as body; a query that succeeds has published all of them;
\* the scenario record is published as the scenario message.
C6_OneNormalizedMessagePerRecord ==
    /\ sent # <<>> => declared
    /\ Len(sent) <= Len(enriched)
    /\ pc = "publish" => Len(sent) = pi - 1
    /\ Returned("ok") => Len(sent) = Len(enriched)
    /\ \A k \in 1..Len(sent) :
          /\ DOMAIN sent[k] = FeedFields
          /\ sent[k].publisher = ""
          /\ sent[k].recipients = <<>>
          /\ sent[k].url = enriched[k].url
          /\ sent[k].title = enriched[k].title
          /\ sent[k].article_body =
                (IF enriched[k].full_content = None THEN "" ELSE enriched[k].full_content)
          /\ enriched[k] = [ScenarioArticle EXCEPT !.full_content = "Full text"]
                => sent[k] = ScenarioMessage

\* C6 witness: a query succeeded with two messages, the second the scenario's
C6_Witness ==
    /\ Returned("ok")
    /\ Len(sent) = 2
    /\ sent[2] = ScenarioMessage
    /\ sent[1].article_body = ""

\* an entry that is not set
Unset(entry) == entry \in {Absent, None}

\* C7 as stated: the normalizer returns a record for every input shape, and
\* every output field whose input is unset (absent or null) is "".
C7_UnsetFieldsBecomeEmpty ==
    \A k \in 1..Len(feeds) :
        /\ Unset(rec.id) => feeds[k].article_id = ""
        /\ Unset(rec.title) => feeds[k].title = ""
        /\ Unset(rec.url) => feeds[k].url = ""
        /\ Unset(rec.publishedAt) => feeds[k].publication_date = ""
        /\ Unset(rec.full_content) => feeds[k].article_body = ""
        /\ (rec.source.kind \in {"absent", "null"} \/ Unset(rec.source.val))
              => feeds[k].source = ""
        /\ \A f \in FeedFields \ {"recipients"} : feeds[k][f] # None

\* the value the claim takes for the article list: the one under `articles`,
\* or the one under `data` when `articles` is not present
Found(p) == IF p.articles.kind # "absent" THEN p.articles ELSE p.data

\* C8 as stated: when the article list found in the response body is not a
\* list, fetch_articles raises; it returns normally only for a list, or when
\* neither key is present.
C8_NonListPayloadRaises ==
    [][(pc = "parse" /\ Found(payload).kind \notin {"list", "absent"})
          => pc' = "except"]_vars

\* C9: the first cycle has run to its end before the timer is registered;
\* afterwards a cycle starts only from the poll, when the timer is due, and
\* never inside another cycle; the control flow always has a next step;
\* every cycle ends, whatever fails in it; each time the timer is due a
\* cycle starts, and cycles start again and again.
C9_SchedulerRunsForever ==
    /\ [](timerRegistered => cyclesDone)
    /\ [][(~InCycle /\ InCycle')
             => (pc = "main" \/ (pc = "poll" /\ timerRegistered /\ due))]_vars
    /\ [](ENABLED Worker)
    /\ (InCycle ~> ~InCycle)
    /\ ((timerRegistered /\ due) ~> (pc = "query" /\ qi = 1))
    /\ []<>(pc = "query" /\ qi = 1)
    /\ []<>(pc = "sleep")

\* C9 witness: idle after a timer-driven cycle in which a fetch, a publish
\* and a connection failed
C9_Witness ==
    /\ pc = "sleep"
    /\ timerRegistered
    /\ ~due
    /\ status[1] = "failed"
    /\ status[2] = "ok"
    /\ leaked > 0

====
